---- MODULE Spec2Model ----
(***************************************************************************)
(* A model of the crawler of src/twitter_scraper_v2.py (class              *)
(* TwitterScraper): the orchestrator scrape_twitter with the page          *)
(* extractor, the pagination controller, the thread reconstructor and the  *)
(* merge-and-persist step, together with the files and pages it works on,  *)
(* and of ReplyProcessor.process_tweet of src/reply_processor.py.          *)
(*                                                                         *)
(* Encoding of Python values:                                              *)
(*   - a tweet id is a positive integer (the code keeps ids as strings and *)
(*     only compares them for equality); NoId is "no id" (None, or the key *)
(*     "tweet_id" missing from a record);                                  *)
(*   - a timestamp is TsNone (get_attribute returned None) or a positive   *)
(*     integer standing for a string, ordered as the strings are;          *)
(*   - a record is the dict built by extract_tweet_data, restricted to the *)
(*     keys the crawler itself reads or writes afterwards;                 *)
(*   - the JSON file is its kind (absent, ok, corrupt, partial) and, when  *)
(*     ok, the list of records json.load returns for it.                   *)
(***************************************************************************)
EXTENDS Integers, Sequences, FiniteSets, TLC

\* ------------------------------------------------------------------ bounds
MaxId == 2          \* tweet ids are 1..MaxId
MaxFrags == 2       \* .timeline-item elements on one rendered page
MaxLimit == 2       \* tweet_limit is 0..MaxLimit
MaxRuns == 1        \* calls of scrape_twitter on one scraper object
MaxMergeLen == 2    \* length of the lists given to the merge in MergeSpec
MaxNavCalls == 3    \* calls of navigate_to_next_page in NavSpec
MaxNavContent == 3  \* page contents 1..MaxNavContent in NavSpec
MaxHref == 3        \* length of an href, in tokens, in IdentSpec
MaxGroupLen == 3    \* length of the list given to group_related_tweets in GroupSpec
MaxSessionRuns == 2 \* calls of scrape_twitter on one scraper object in SessionSpec
MaxReplyId == 2     \* tweet ids given to process_tweet are 1..MaxReplyId in ReplySpec
MaxReplyCalls == 3  \* calls of process_tweet on one ReplyProcessor in ReplySpec

\* -------------------------------------------------------- program constants
NumInstances == 5           \* len(self.nitter_instances)
max_consecutive_empty == 10

UsernameChars == 20         \* username[:20]
TextChars == 100            \* text[:100]

NoId == 0
TsNone == 0
NoContent == 0  \* last_page_content = None; no page opened yet

Ids == 1..MaxId
ReplyIds == 1..MaxReplyId
Contents == {1, 2}          \* what page.content() can return
\* What extract_tweet_data reads from an element in a crawl: the title of
\* ".tweet-date a" and the handles linked under ".replying-to".
CrawlFields == {[ts |-> 1, reply |-> <<>>], [ts |-> 1, reply |-> <<1>>],
                [ts |-> TsNone, reply |-> <<1>>]}

\* ----------------------------------------------------------------- records
\* The dict extract_tweet_data returns.  has_reply is the presence of the key
\* "reply_to_usernames"; thread_* are absent (0, <<>>) until the grouping.
Record(id, ts, reply, run) ==
    [tweet_id |-> id, timestamp |-> ts,
     has_reply |-> (reply # <<>>), reply_to_usernames |-> reply,
     scraped_at |-> run,
     thread_position |-> 0, thread_size |-> 0, thread_key |-> <<>>]

Range(s) == {s[i] : i \in 1..Len(s)}

\* The ids of a list of records, as load_existing_data collects them.
IdsOf(recs) == {r.tweet_id : r \in {x \in Range(recs) : x.tweet_id # NoId}}

RECURSIVE SeqsUpTo(_, _)
SeqsUpTo(S, n) ==
    IF n = 0 THEN {<<>>}
    ELSE LET shorter == SeqsUpTo(S, n - 1)
         IN shorter \cup {Append(s, x) : s \in {t \in shorter : Len(t) = n - 1}, x \in S}

\* -------------------------------------------------------- extract_tweet_id
\* Strings are sequences of tokens: a token is one character, except that
\* "/status/" stands for that substring of an href.  <<>> is the empty string
\* and also None, which the code treats alike here (`or ""` at line 98, the
\* truth tests of lines 100 and 107); as a result of extract_tweet_id, which
\* never returns an empty string, <<>> is None.
Digits == {"1", "2"}
HrefTokens == {"/status/", "x"} \cup Digits
Hrefs == SeqsUpTo(HrefTokens, MaxHref)

\* match.group(1) of re.search(r"/status/(\d+)", href), lines 99-101: the
\* leftmost "/status/" that a digit follows, and the longest run of digits
\* after it; <<>> when there is no match.
RECURSIVE DigitsFrom(_, _)
DigitsFrom(href, i) ==
    IF i > Len(href) \/ href[i] \notin Digits THEN <<>>
    ELSE <<href[i]>> \o DigitsFrom(href, i + 1)

RECURSIVE SearchStatus(_, _)
SearchStatus(href, i) ==
    IF i >= Len(href) THEN <<>>
    ELSE IF href[i] = "/status/" /\ href[i + 1] \in Digits
         THEN DigitsFrom(href, i + 1)
         ELSE SearchStatus(href, i + 1)

\* s[:n]
Prefix(s, n) == SubSeq(s, 1, IF Len(s) < n THEN Len(s) ELSE n)

Fill(c, n) == [i \in 1..n |-> c]
Unknown == <<"u", "n", "k", "n", "o", "w", "n">>

\* str(hash(f"{username[:20]}{text[:100]}")), line 115: a string that depends
\* on the concatenation only.
Fingerprint(username, text) ==
    <<"hash">> \o Prefix(username, UsernameChars) \o Prefix(text, TextChars)

\* The element extract_tweet_id is given: which of "a.tweet-link",
\* ".tweet-body", ".username", ".tweet-content" it has and what they hold, and
\* at which of the three methods a call on the element raises (0: at none).
LinkOptions == {<<FALSE, <<>>>>} \cup {<<TRUE, h>> : h \in Hrefs}
BodyOptions == {<<FALSE, <<>>>>} \cup {<<TRUE, a>> : a \in {<<>>, <<"1">>, <<"x">>}}
UserOptions == {<<FALSE, <<>>>>} \cup
               {<<TRUE, n>> : n \in {<<"a">>, Fill("a", UsernameChars),
                                     Append(Fill("a", UsernameChars), "z")}}
TextOptions == {<<FALSE, <<>>>>} \cup
               {<<TRUE, t>> : t \in {<<>>, Fill("t", TextChars),
                                     Append(Fill("t", TextChars), "z")}}

Elements ==
    {[detached |-> d, link |-> lk[1], href |-> lk[2], body |-> bd[1], attr |-> bd[2],
      user |-> us[1], username |-> us[2], content |-> tx[1], text |-> tx[2]] :
        d \in 0..3, lk \in LinkOptions, bd \in BodyOptions, us \in UserOptions,
        tx \in TextOptions}

\* Mutant of ExtractTweetId: the attribute is tried before the permalink.
ExtractTweetIdAttributeFirst(el) ==
    IF el.detached \in {1, 2} THEN <<>>
    ELSE IF el.body /\ el.attr # <<>> THEN el.attr
    ELSE LET status == IF el.link THEN SearchStatus(el.href, 1) ELSE <<>>
         IN IF status # <<>> THEN status
            ELSE IF el.detached = 3 THEN <<>>
            ELSE Fingerprint(IF el.user THEN el.username ELSE Unknown,
                             IF el.content THEN el.text ELSE <<>>)

\* extract_tweet_id, lines 92-119.  An exception in a method that is reached
\* goes to the handler of line 117, which returns None.
ExtractTweetId(el) ==
    IF el.detached = 1 THEN <<>>
    ELSE LET status == IF el.link THEN SearchStatus(el.href, 1) ELSE <<>>
         IN IF status # <<>> THEN status
            ELSE IF el.detached = 2 THEN <<>>
            ELSE IF el.body /\ el.attr # <<>> THEN el.attr
            ELSE IF el.detached = 3 THEN <<>>
            ELSE Fingerprint(IF el.user THEN el.username ELSE Unknown,
                             IF el.content THEN el.text ELSE <<>>)

\* ------------------------------------------------------------------- merge
\* save_results, lines 540-548: a dict keyed by tweet_id filled from
\* existing_data + self.data; records without the key are skipped.  A Python
\* dict keeps a key at the place of its first insertion and holds the value of
\* its last one, so the values() list is: for each id in order of first
\* occurrence, the last record carrying it.
LastWith(combined, id) ==
    combined[CHOOSE i \in 1..Len(combined) :
                /\ combined[i].tweet_id = id
                /\ \A j \in (i + 1)..Len(combined) : combined[j].tweet_id # id]

FirstOccurrence(combined, i) ==
    /\ combined[i].tweet_id # NoId
    /\ \A j \in 1..(i - 1) : combined[j].tweet_id # combined[i].tweet_id

RECURSIVE UniqueValues(_, _)
UniqueValues(combined, i) ==
    IF i > Len(combined) THEN <<>>
    ELSE IF FirstOccurrence(combined, i)
         THEN <<LastWith(combined, combined[i].tweet_id)>> \o UniqueValues(combined, i + 1)
         ELSE UniqueValues(combined, i + 1)

\* Mutants of FinalData: the persisted record wins over the new one; nothing is
\* deduplicated.
FinalDataKeepsOld(existing, new) == UniqueValues(new \o existing, 1)
FinalDataAppends(existing, new) == existing \o new

FinalData(existing, new) == UniqueValues(existing \o new, 1)

\* -------------------------------------------------------- thread grouping
\* group_related_tweets works on references: the same dict can sit in several
\* thread lists, so the model groups positions of the input list and keeps one
\* annotation per position, overwritten by each later group.

\* First pass, lines 347-355: the (position, username) pairs in the order the
\* two nested loops visit them.
RECURSIVE ReplyPairs(_, _)
ReplyPairs(tweets, i) ==
    IF i > Len(tweets) THEN <<>>
    ELSE (IF tweets[i].has_reply
          THEN [k \in 1..Len(tweets[i].reply_to_usernames) |->
                    <<i, tweets[i].reply_to_usernames[k]>>]
          ELSE <<>>) \o ReplyPairs(tweets, i + 1)

\* The keys of the dict threads, in insertion order.
RECURSIVE ThreadKeys(_, _)
ThreadKeys(pairs, k) ==
    IF k > Len(pairs) THEN <<>>
    ELSE IF \A j \in 1..(k - 1) : pairs[j][2] # pairs[k][2]
         THEN <<pairs[k][2]>> \o ThreadKeys(pairs, k + 1)
         ELSE ThreadKeys(pairs, k + 1)

\* threads[username]: the positions appended under that key, in order.
RECURSIVE ThreadOf(_, _, _)
ThreadOf(pairs, username, k) ==
    IF k > Len(pairs) THEN <<>>
    ELSE IF pairs[k][2] = username
         THEN <<pairs[k][1]>> \o ThreadOf(pairs, username, k + 1)
         ELSE ThreadOf(pairs, username, k + 1)

StandaloneOf(tweets) == SelectSeq([i \in 1..Len(tweets) |-> i],
                                  LAMBDA i : ~tweets[i].has_reply)

\* list.sort(key=timestamp), line 364: stable, ascending.
RECURSIVE InsertByTs(_, _, _)
InsertByTs(sorted, p, tweets) ==
    IF sorted = <<>> THEN <<p>>
    ELSE IF tweets[sorted[Len(sorted)]].timestamp <= tweets[p].timestamp
         THEN Append(sorted, p)
         ELSE Append(InsertByTs(SubSeq(sorted, 1, Len(sorted) - 1), p, tweets),
                     sorted[Len(sorted)])

RECURSIVE SortByTs(_, _, _)
SortByTs(thread, n, tweets) ==
    IF n = 0 THEN <<>>
    ELSE InsertByTs(SortByTs(thread, n - 1, tweets), thread[n], tweets)

\* The sort compares keys with "<"; a None key makes that raise TypeError as
\* soon as the list has two members (every member is compared at least once).
SortRaises(thread, tweets) ==
    /\ Len(thread) >= 2
    /\ \E k \in 1..Len(thread) : tweets[thread[k]].timestamp = TsNone

SortedThread(thread, tweets) == SortByTs(thread, Len(thread), tweets)

GroupRaises(tweets) ==
    LET pairs == ReplyPairs(tweets, 1)
        keys == ThreadKeys(pairs, 1)
    IN \E h \in 1..Len(keys) : SortRaises(ThreadOf(pairs, keys[h], 1), tweets)

\* Lines 361-372 for the h-th key onwards: ann is the annotation written so far.
RECURSIVE TagThreads(_, _, _, _, _)
TagThreads(tweets, pairs, keys, h, ann) ==
    IF h > Len(keys) THEN [order |-> <<>>, ann |-> ann]
    ELSE LET thread == SortedThread(ThreadOf(pairs, keys[h], 1), tweets)
             tagged == [p \in DOMAIN ann |->
                          IF \E k \in 1..Len(thread) : thread[k] = p
                          THEN [thread_position |->
                                    (CHOOSE k \in 1..Len(thread) :
                                        /\ thread[k] = p
                                        /\ \A m \in (k + 1)..Len(thread) : thread[m] # p),
                                thread_size |-> Len(thread),
                                thread_key |-> <<keys[h], Len(thread)>>]
                          ELSE ann[p]]
             rest == TagThreads(tweets, pairs, keys, h + 1, tagged)
         IN [order |-> thread \o rest.order, ann |-> rest.ann]

\* group_related_tweets when it does not raise: the result list, each entry the
\* dict at that position with the annotation it holds when the function returns.
GroupRelatedTweets(tweets) ==
    LET pairs == ReplyPairs(tweets, 1)
        keys == ThreadKeys(pairs, 1)
        none == [p \in 1..Len(tweets) |->
                    [thread_position |-> tweets[p].thread_position,
                     thread_size |-> tweets[p].thread_size,
                     thread_key |-> tweets[p].thread_key]]
        done == TagThreads(tweets, pairs, keys, 1, none)
        order == done.order \o StandaloneOf(tweets)
    IN [k \in 1..Len(order) |->
           [tweets[order[k]] EXCEPT !.thread_position = done.ann[order[k]].thread_position,
                                    !.thread_size = done.ann[order[k]].thread_size,
                                    !.thread_key = done.ann[order[k]].thread_key]]

\* ------------------------------------------------------------------- state
VARIABLES
    \* the TwitterScraper object (__init__, lines 16-32)
    data, tweet_limit, seen_tweets, ignore_existing, current_instance,
    should_stop, last_page_content,
    \* the world: the JSON file at self.data_file, the content of the open page,
    \* whether the spacebar hook is installed
    file, page_content, listening,
    \* the frame of scrape_twitter: position, parameter, locals, return value
    pc, fresh_start, existing_data, inst, consecutive_empty_pages, result,
    \* the frame of scrape_tweets_from_page
    new_tweets, duplicates, errors, idx, nfrag,
    \* history: calls of scrape_twitter so far, the file when the current call
    \* began, whether the unlink of the entry guard deleted it, the calls made
    \* while acquiring a source, why the page loop was left, whether the fatal
    \* handler ran, how save_results ended
    runs, prior, discarded, trail, exit_reason, fatal, save_outcome,
    \* the merge as a function of its two arguments (MergeSpec)
    merge,
    \* the calls made to self._update_progress, the hook streamlit_app.py
    \* installs on the scraper (line 66): the (current, total) pairs passed
    progress,
    \* functions studied on their own: the last call of navigate_to_next_page
    \* (NavSpec), of group_related_tweets (GroupSpec), of extract_tweet_id
    \* (IdentSpec)
    nav, grouping, ident,
    \* a ReplyProcessor of src/reply_processor.py with processed_tweets.json
    \* and the history of its process_tweet calls (ReplySpec)
    processor

objVars == <<data, tweet_limit, seen_tweets, ignore_existing, current_instance,
             should_stop, last_page_content>>
worldVars == <<file, page_content, listening>>
runVars == <<pc, fresh_start, existing_data, inst, consecutive_empty_pages, result>>
pageVars == <<new_tweets, duplicates, errors, idx, nfrag>>
histVars == <<runs, prior, discarded, trail, exit_reason, fatal, save_outcome>>
unitVars == <<nav, grouping, ident, processor>>
vars == <<objVars, worldVars, runVars, pageVars, histVars, merge, progress, unitVars>>

Absent == [kind |-> "absent", content |-> <<>>]
Corrupt == [kind |-> "corrupt", content |-> <<>>]
Partial == [kind |-> "partial", content |-> <<>>]
Stored(recs) == [kind |-> "ok", content |-> recs]

\* What json.load gives for the file: its records, or nothing when the file is
\* absent or does not parse.
StoreOf(f) == IF f.kind = "ok" THEN f.content ELSE <<>>

\* A store an earlier session wrote: one record per id.
RECURSIVE Ascending(_, _)
Ascending(S, i) ==
    IF i > MaxId THEN <<>>
    ELSE (IF i \in S THEN <<Record(i, 1, <<>>, 0)>> ELSE <<>>) \o Ascending(S, i + 1)

PriorStores == {Ascending(S, 1) : S \in SUBSET Ids}

MergeIdle == [step |-> 0, prior |-> <<>>, new |-> <<>>, once |-> <<>>, twice |-> <<>>]

\* No call of navigate_to_next_page, group_related_tweets, extract_tweet_id
\* recorded yet.
NavIdle == [calls |-> 0, failure |-> "none", button |-> FALSE, before |-> NoContent,
            last |-> NoContent, after |-> NoContent, returned |-> "none",
            handler |-> "none"]
GroupIdle == [step |-> 0, tweets |-> <<>>, raised |-> FALSE, result |-> <<>>]
IdentIdle == [step |-> 0, element |-> <<>>, tweet_id |-> <<>>]

\* processed_tweets.json: its kind and, when it parses, the ids in its list.
NoIdsFile == [kind |-> "absent", ids |-> {}]
CorruptIdsFile == [kind |-> "corrupt", ids |-> {}]
IdsFile(ids) == [kind |-> "ok", ids |-> ids]

\* No call of process_tweet yet.
NoCall == [tweet_id |-> NoId, status |-> "none", before |-> {},
           generated |-> FALSE, posted |-> FALSE]

\* No ReplyProcessor was constructed.
ProcessorIdle == [test_mode |-> TRUE, twitter_client |-> FALSE, openai_client |-> FALSE,
                  processed_ids |-> {}, ids_file |-> NoIdsFile, loaded |-> {},
                  replies |-> [i \in ReplyIds |-> 0], calls |-> 0, last |-> NoCall]

Init ==
    /\ data = <<>>
    /\ tweet_limit \in 0..MaxLimit
    /\ seen_tweets = {}
    /\ ignore_existing = FALSE
    /\ current_instance = 0
    /\ should_stop = FALSE
    /\ last_page_content = NoContent
    /\ file \in {Absent, Corrupt} \cup {Stored(s) : s \in PriorStores}
    /\ page_content = NoContent
    /\ listening = FALSE
    /\ pc = "idle"
    /\ fresh_start = FALSE
    /\ existing_data = <<>>
    /\ inst = 1
    /\ consecutive_empty_pages = 0
    /\ result = "none"
    /\ new_tweets = <<>>
    /\ duplicates = 0
    /\ errors = 0
    /\ idx = 0
    /\ nfrag = 0
    /\ runs = 0
    /\ prior = Absent
    /\ discarded = FALSE
    /\ trail = <<>>
    /\ exit_reason = "none"
    /\ fatal = FALSE
    /\ save_outcome = "none"
    /\ merge = MergeIdle
    /\ progress = <<>>
    /\ nav = NavIdle
    /\ grouping = GroupIdle
    /\ ident = IdentIdle
    /\ processor = ProcessorIdle

\* ---------------------------------------------------------- scrape_twitter
\* is_new_tweet, lines 44-48.
IsNewTweet(tweet_id) == ignore_existing \/ tweet_id \notin seen_tweets

\* The entry guard, lines 390-395: unlink raises or deletes the file.
AfterUnlink(f, fs, unlink_ok) ==
    IF fs /\ f.kind # "absent" /\ unlink_ok THEN Absent ELSE f

\* load_existing_data, lines 68-90: what it returns.
LoadExistingData(f, ie) == IF ie THEN <<>> ELSE StoreOf(f)

\* Mutant of SeenAfterLoad: the ids of the file are not loaded.
SeenNotSeeded(f, ie, seen) == seen

\* load_existing_data, lines 78-80: self.seen_tweets is replaced only when the
\* file was opened and parsed.
SeenAfterLoad(f, ie, seen) ==
    IF ~ie /\ f.kind = "ok" THEN IdsOf(f.content) ELSE seen

\* Lines 389-400: the entry guard, the load, the reset of data and should_stop.
EnterRun(fs, ie, unlink_ok) ==
    /\ pc \in {"idle", "done"}
    /\ LET f == AfterUnlink(file, fs, unlink_ok)
       IN /\ file' = f
          /\ existing_data' = LoadExistingData(f, ie)
          /\ seen_tweets' = SeenAfterLoad(f, ie, seen_tweets)
          /\ discarded' = (f # file)
    /\ fresh_start' = fs
    /\ ignore_existing' = ie
    /\ data' = <<>>
    /\ should_stop' = FALSE
    /\ pc' = "launch"
    /\ result' = "none"
    /\ runs' = runs + 1
    /\ prior' = file
    /\ trail' = <<>>
    /\ exit_reason' = "none"
    /\ fatal' = FALSE
    /\ save_outcome' = "none"
    /\ inst' = 1
    /\ consecutive_empty_pages' = 0
    /\ UNCHANGED <<tweet_limit, current_instance, last_page_content, page_content,
                   listening, pageVars, merge,
                   progress, unitVars>>

\* A call of scrape_twitter on a scraper that is not running.
ScrapeTwitterEntry(fs, ie, unlink_ok) ==
    /\ runs < MaxRuns
    /\ EnterRun(fs, ie, unlink_ok)

\* The same call in SessionSpec, where a scraper is used for several runs.
ScrapeTwitterAgain(fs, ie, unlink_ok) ==
    /\ runs < MaxSessionRuns
    /\ EnterRun(fs, ie, unlink_ok)

\* Lines 430-438: the browser, the page and the keyboard hook.  A failure
\* before `page` is bound makes the handler of line 526 raise NameError, which
\* leaves scrape_twitter as an exception; a later failure returns False.
LaunchBrowser(outcome) ==
    /\ pc = "launch"
    /\ \/ /\ outcome = "ok"
          /\ pc' = "acquire"
          /\ listening' = TRUE
          /\ UNCHANGED <<result, fatal>>
       \/ /\ outcome = "no_page"
          /\ pc' = "done"
          /\ result' = "raised"
          /\ fatal' = TRUE
          /\ UNCHANGED listening
       \/ /\ outcome = "no_hook"
          /\ pc' = "done"
          /\ result' = "False"
          /\ fatal' = TRUE
          /\ UNCHANGED listening
    /\ UNCHANGED <<objVars, file, page_content, fresh_start, existing_data, inst,
                   consecutive_empty_pages, pageVars, runs, prior, discarded, trail,
                   exit_reason, save_outcome, merge,
                   progress, unitVars>>

\* stop_scraping, lines 39-42, called by the hook of line 36 at any moment
\* between setup_keyboard_listener and unhook_all.
StopScraping ==
    /\ listening
    /\ ~should_stop
    /\ should_stop' = TRUE
    /\ UNCHANGED <<data, tweet_limit, seen_tweets, ignore_existing, current_instance,
                   last_page_content, worldVars, runVars, pageVars, histVars, merge,
                   progress, unitVars>>

Event(what, k) == [call |-> what, instance |-> k]

\* Lines 443-453: the attempt that reaches the break.
LiveAttempt(k) == <<Event("goto", k), Event("found", k)>>

\* Mutant of FailedAttempt: no pause before the next instance.
FailedAttemptNoDelay(k) == <<Event("goto", k), Event("take_screenshot", k)>>

\* Lines 443-447 and 455-459: the attempt that raises, and its handler.
FailedAttempt(k) ==
    <<Event("goto", k), Event("take_screenshot", k), Event("random_delay", k)>>

\* Mutant of TryInstance: the for loop has no else clause, so the run goes on
\* to the page loop when the last instance failed.
TryInstanceNoElse(ok, content) ==
    /\ pc = "acquire"
    /\ current_instance' = inst
    /\ IF ok
       THEN /\ trail' = trail \o LiveAttempt(inst)
            /\ pc' = "while"
            /\ page_content' = content
            /\ UNCHANGED <<inst, result, listening, exit_reason>>
       ELSE /\ trail' = trail \o FailedAttempt(inst)
            /\ UNCHANGED page_content
            /\ IF inst < NumInstances
               THEN /\ inst' = inst + 1
                    /\ UNCHANGED <<pc, result, listening, exit_reason>>
               ELSE /\ pc' = "while"
                    /\ exit_reason' = "exhausted"
                    /\ UNCHANGED <<inst, result, listening>>
    /\ UNCHANGED <<data, tweet_limit, seen_tweets, ignore_existing, should_stop,
                   last_page_content, file, fresh_start, existing_data,
                   consecutive_empty_pages, pageVars, runs, prior, discarded, fatal,
                   save_outcome, merge, progress, unitVars>>

\* One pass of the for loop of lines 441-462: ok is whether goto and the wait
\* for ".timeline-item" succeed, content what the page then holds.
TryInstance(ok, content) ==
    /\ pc = "acquire"
    /\ current_instance' = inst
    /\ IF ok
       THEN /\ trail' = trail \o LiveAttempt(inst)
            /\ pc' = "while"
            /\ page_content' = content
            /\ UNCHANGED <<inst, result, listening, exit_reason>>
       ELSE /\ trail' = trail \o FailedAttempt(inst)
            /\ UNCHANGED page_content
            /\ IF inst < NumInstances
               THEN /\ inst' = inst + 1
                    /\ UNCHANGED <<pc, result, listening, exit_reason>>
               ELSE /\ pc' = "done"
                    /\ result' = "False"
                    /\ listening' = FALSE
                    /\ exit_reason' = "exhausted"
                    /\ UNCHANGED inst
    /\ UNCHANGED <<data, tweet_limit, seen_tweets, ignore_existing, should_stop,
                   last_page_content, file, fresh_start, existing_data,
                   consecutive_empty_pages, pageVars, runs, prior, discarded, fatal,
                   save_outcome, merge,
                   progress, unitVars>>

\* Mutant of WhileTest: the loop goes on while len(self.data) <= tweet_limit.
WhileTestInclusive ==
    /\ pc = "while"
    /\ IF Len(data) <= tweet_limit /\ ~should_stop
       THEN /\ pc' = "wait"
            /\ UNCHANGED exit_reason
       ELSE /\ pc' = "after_loop"
            /\ exit_reason' = IF Len(data) >= tweet_limit THEN "target" ELSE "cancel"
    /\ UNCHANGED <<objVars, worldVars, fresh_start, existing_data, inst,
                   consecutive_empty_pages, result, pageVars, runs, prior, discarded,
                   trail, fatal, save_outcome, merge, progress, unitVars>>

\* Line 471, the test of the while loop.
WhileTest ==
    /\ pc = "while"
    /\ IF Len(data) < tweet_limit /\ ~should_stop
       THEN /\ pc' = "wait"
            /\ UNCHANGED exit_reason
       ELSE /\ pc' = "after_loop"
            /\ exit_reason' = IF Len(data) >= tweet_limit THEN "target" ELSE "cancel"
    /\ UNCHANGED <<objVars, worldVars, fresh_start, existing_data, inst,
                   consecutive_empty_pages, result, pageVars, runs, prior, discarded,
                   trail, fatal, save_outcome, merge,
                   progress, unitVars>>

\* ------------------------------------------------- scrape_tweets_from_page
\* Mutant of PageWait: no handler at line 180, an error of the wait or of the
\* query ends the run in the handler of line 524.
PageWaitUnguarded(loaded, n) ==
    /\ pc = "wait"
    /\ IF loaded
       THEN /\ nfrag' = n
            /\ pc' = IF n > 0 THEN "frag" ELSE "after_page"
            /\ UNCHANGED <<result, fatal>>
       ELSE /\ nfrag' = 0
            /\ pc' = "done"
            /\ result' = "False"
            /\ fatal' = TRUE
    /\ UNCHANGED <<objVars, worldVars, fresh_start, existing_data, inst,
                   consecutive_empty_pages, new_tweets, duplicates, errors, idx,
                   runs, prior, discarded, trail, exit_reason, save_outcome, merge,
                   progress, unitVars>>

\* Lines 134-146: the wait for ".timeline-item" and the query.  A timeout or any
\* other error goes to the handler of line 180, which returns [], 0, 0; so does
\* an empty list of elements.
PageWait(loaded, n) ==
    /\ pc = "wait"
    /\ IF loaded /\ n > 0
       THEN /\ nfrag' = n
            /\ pc' = "frag"
       ELSE /\ nfrag' = 0
            /\ pc' = "after_page"
    /\ UNCHANGED <<objVars, worldVars, fresh_start, existing_data, inst,
                   consecutive_empty_pages, result, new_tweets, duplicates, errors, idx,
                   histVars, merge,
                   progress, unitVars>>

\* Mutant of FragStep: the loop over the elements does not test should_stop.
FragStepDeaf(tweet_id, tweet_data, fields) ==
    /\ pc = "frag"
    /\ IF tweet_id = NoId
       THEN /\ errors' = errors + 1
            /\ UNCHANGED <<new_tweets, duplicates, seen_tweets>>
       ELSE IF ~IsNewTweet(tweet_id)
       THEN /\ duplicates' = duplicates + 1
            /\ UNCHANGED <<new_tweets, errors, seen_tweets>>
       ELSE IF tweet_data
       THEN /\ new_tweets' = Append(new_tweets, Record(tweet_id, fields.ts, fields.reply, runs))
            /\ seen_tweets' = seen_tweets \cup {tweet_id}
            /\ UNCHANGED <<duplicates, errors>>
       ELSE UNCHANGED <<new_tweets, duplicates, errors, seen_tweets>>
    /\ idx' = idx + 1
    /\ pc' = IF idx + 1 < nfrag THEN "frag" ELSE "after_page"
    /\ UNCHANGED <<data, tweet_limit, ignore_existing, current_instance, should_stop,
                   last_page_content, worldVars, fresh_start, existing_data, inst,
                   consecutive_empty_pages, result, nfrag, histVars, merge,
                   progress, unitVars>>

\* Lines 148-178, one pass of the for loop over the elements.  tweet_id is what
\* extract_tweet_id returns for the element (NoId: it returned None), tweet_data
\* whether extract_tweet_data returned a dict, fields what it read.
FragStep(tweet_id, tweet_data, fields) ==
    /\ pc = "frag"
    /\ IF should_stop
       THEN /\ pc' = "after_page"
            /\ UNCHANGED <<new_tweets, duplicates, errors, idx, seen_tweets>>
       ELSE /\ IF tweet_id = NoId
               THEN /\ errors' = errors + 1
                    /\ UNCHANGED <<new_tweets, duplicates, seen_tweets>>
               ELSE IF ~IsNewTweet(tweet_id)
               THEN /\ duplicates' = duplicates + 1
                    /\ UNCHANGED <<new_tweets, errors, seen_tweets>>
               ELSE IF tweet_data
               THEN /\ new_tweets' = Append(new_tweets, Record(tweet_id, fields.ts, fields.reply, runs))
                    /\ seen_tweets' = seen_tweets \cup {tweet_id}
                    /\ UNCHANGED <<duplicates, errors>>
               ELSE UNCHANGED <<new_tweets, duplicates, errors, seen_tweets>>
            /\ idx' = idx + 1
            /\ pc' = IF idx + 1 < nfrag THEN "frag" ELSE "after_page"
    /\ UNCHANGED <<data, tweet_limit, ignore_existing, current_instance, should_stop,
                   last_page_content, worldVars, fresh_start, existing_data, inst,
                   consecutive_empty_pages, result, nfrag, histVars, merge,
                   progress, unitVars>>

\* new_tweets[:remaining], line 481.
Take(s, n) == SubSeq(s, 1, IF n < Len(s) THEN n ELSE Len(s))

\* AfterPage with lines 486-490 left out: an empty page is not counted.
AfterPageNeverCounts ==
    /\ pc = "after_page"
    /\ LET added == Take(new_tweets, tweet_limit - Len(data))
           total == IF new_tweets # <<>> THEN data \o added ELSE data
       IN /\ data' = total
          /\ consecutive_empty_pages' = 0
          /\ IF Len(total) >= tweet_limit
             THEN /\ pc' = "after_loop"
                  /\ exit_reason' = "target"
             ELSE IF should_stop
             THEN /\ pc' = "after_loop"
                  /\ exit_reason' = "cancel"
             ELSE /\ pc' = "paginate"
                  /\ UNCHANGED exit_reason
    /\ new_tweets' = <<>>
    /\ duplicates' = 0
    /\ errors' = 0
    /\ idx' = 0
    /\ nfrag' = 0
    /\ UNCHANGED <<tweet_limit, seen_tweets, ignore_existing, current_instance,
                   should_stop, last_page_content, worldVars, fresh_start,
                   existing_data, inst, result, runs, prior, discarded,
                   trail, fatal, save_outcome, merge,
                   progress, unitVars>>

\* Lines 475-494: what the loop does with the page's result, up to the break
\* before pagination.  The three values returned are not read again (the totals
\* of lines 475-476 are only printed), so the frame is cleared here.
AfterPage ==
    /\ pc = "after_page"
    /\ LET added == Take(new_tweets, tweet_limit - Len(data))
           empties == IF new_tweets # <<>> THEN 0 ELSE consecutive_empty_pages + 1
           total == IF new_tweets # <<>> THEN data \o added ELSE data
       IN /\ data' = total
          /\ consecutive_empty_pages' = empties
          /\ IF new_tweets = <<>> /\ empties >= max_consecutive_empty
             THEN /\ pc' = "after_loop"
                  /\ exit_reason' = "empty"
             ELSE IF Len(total) >= tweet_limit
             THEN /\ pc' = "after_loop"
                  /\ exit_reason' = "target"
             ELSE IF should_stop
             THEN /\ pc' = "after_loop"
                  /\ exit_reason' = "cancel"
             ELSE /\ pc' = "paginate"
                  /\ UNCHANGED exit_reason
    /\ new_tweets' = <<>>
    /\ duplicates' = 0
    /\ errors' = 0
    /\ idx' = 0
    /\ nfrag' = 0
    /\ UNCHANGED <<tweet_limit, seen_tweets, ignore_existing, current_instance,
                   should_stop, last_page_content, worldVars, fresh_start,
                   existing_data, inst, result, runs, prior, discarded,
                   trail, fatal, save_outcome, merge,
                   progress, unitVars>>

\* --------------------------------------------------- navigate_to_next_page
\* Lines 266-339.  The inputs: how far the call gets before something raises
\* ("content": page.content() or the selector queries of lines 273-278;
\* "action": the scroll and click of lines 283-287, or the query and scroll of
\* lines 312-315; "wait": the bounded wait of line 291 or 319; "reread":
\* page.content() after the wait; "none": nothing raises), whether a load-more
\* control was found, and the content of the page after the click or scroll.
NavigateActs(failure) == failure \in {"wait", "reread", "none"}

\* Mutant of NavigateReturns: the new content is compared with the content
\* before the attempt only, not with last_page_content.
NavigateReturnsNoFingerprint(failure, button, new_content) ==
    /\ failure = "none"
    /\ new_content # page_content

NavigateReturns(failure, button, new_content) ==
    /\ failure = "none"
    /\ new_content # page_content
    /\ new_content # last_page_content

\* Paginate with line 300/330 moved before the comparison: the fingerprint is
\* recorded whether or not the content changed.
PaginateRecordsFirst(failure, button, new_content) ==
    /\ pc = "paginate"
    /\ page_content' = IF NavigateActs(failure) THEN new_content ELSE page_content
    /\ last_page_content' = IF failure = "none" THEN page_content ELSE last_page_content
    /\ IF NavigateReturns(failure, button, new_content)
       THEN /\ pc' = "while"
            /\ UNCHANGED <<consecutive_empty_pages, exit_reason>>
       ELSE /\ consecutive_empty_pages' = consecutive_empty_pages + 1
            /\ IF consecutive_empty_pages + 1 >= max_consecutive_empty
               THEN /\ pc' = "after_loop"
                    /\ exit_reason' = "pagination"
               ELSE /\ pc' = "while"
                    /\ UNCHANGED exit_reason
    /\ UNCHANGED <<data, tweet_limit, seen_tweets, ignore_existing, current_instance,
                   should_stop, file, listening, fresh_start, existing_data, inst,
                   result, pageVars, runs, prior, discarded, trail, fatal,
                   save_outcome, merge,
                   progress, unitVars>>

\* Lines 497-505: the call and what the loop does with its result.
Paginate(failure, button, new_content) ==
    /\ pc = "paginate"
    /\ page_content' = IF NavigateActs(failure) THEN new_content ELSE page_content
    /\ IF NavigateReturns(failure, button, new_content)
       THEN /\ last_page_content' = page_content
            /\ pc' = "while"
            /\ UNCHANGED <<consecutive_empty_pages, exit_reason>>
       ELSE /\ consecutive_empty_pages' = consecutive_empty_pages + 1
            /\ UNCHANGED last_page_content
            /\ IF consecutive_empty_pages + 1 >= max_consecutive_empty
               THEN /\ pc' = "after_loop"
                    /\ exit_reason' = "pagination"
               ELSE /\ pc' = "while"
                    /\ UNCHANGED exit_reason
    /\ UNCHANGED <<data, tweet_limit, seen_tweets, ignore_existing, current_instance,
                   should_stop, file, listening, fresh_start, existing_data, inst,
                   result, pageVars, runs, prior, discarded, trail, fatal,
                   save_outcome, merge,
                   progress, unitVars>>

\* Mutant of NavHandler: the wait of the scroll strategy is not inside a try.
NavHandlerScrollUnguarded(failure, button) ==
    CASE failure = "none" -> "none"
      [] failure = "content" -> "outer"
      [] failure = "action" -> IF button THEN "click" ELSE "outer"
      [] OTHER -> IF button THEN "loaded" ELSE "uncaught"

\* The except clause that catches a raise at the given point: "loaded" is the
\* one of line 303 around the wait and the second read after a click, "click"
\* the one of line 307 around the scroll into view and the click, "scrolled"
\* the bare except of line 333 around the wait and the second read after a
\* scroll, "outer" the one of line 337 around the whole body.
NavHandler(failure, button) ==
    CASE failure = "none" -> "none"
      [] failure = "content" -> "outer"
      [] failure = "action" -> IF button THEN "click" ELSE "outer"
      [] OTHER -> IF button THEN "loaded" ELSE "scrolled"

\* What the call gives its caller: every except clause returns False (their
\* bodies only print and call take_screenshot, which catches its own errors);
\* a raise no clause catches would leave the function.
NavResult(failure, button, new_content) ==
    IF failure # "none"
    THEN IF NavHandler(failure, button) \in {"loaded", "click", "scrolled", "outer"}
         THEN "False" ELSE "raised"
    ELSE IF NavigateReturns(failure, button, new_content) THEN "True" ELSE "False"

\* navigate_to_next_page called on an open page, on its own (NavSpec).
NavigateToNextPage(failure, button, new_content) ==
    /\ nav.calls < MaxNavCalls
    /\ page_content' = IF NavigateActs(failure) THEN new_content ELSE page_content
    /\ last_page_content' = IF NavigateReturns(failure, button, new_content)
                            THEN page_content ELSE last_page_content
    /\ nav' = [calls |-> nav.calls + 1, failure |-> failure, button |-> button,
               before |-> page_content, last |-> last_page_content,
               after |-> IF failure = "none" THEN new_content ELSE NoContent,
               returned |-> NavResult(failure, button, new_content),
               handler |-> NavHandler(failure, button)]
    /\ UNCHANGED <<data, tweet_limit, seen_tweets, ignore_existing, current_instance,
                   should_stop, file, listening, runVars, pageVars, histVars, merge,
                   progress, grouping, ident, processor>>

\* ------------------------------------------------------------- finalizing
\* Lines 507-534: after the loop.  An exception of group_related_tweets is
\* caught at line 524, which returns False without saving.
Finalize ==
    /\ pc = "after_loop"
    /\ IF data = <<>>
       THEN /\ pc' = "done"
            /\ result' = "False"
            /\ listening' = FALSE
            /\ UNCHANGED <<data, fatal>>
       ELSE IF GroupRaises(data)
       THEN /\ pc' = "done"
            /\ result' = "False"
            /\ fatal' = TRUE
            /\ listening' = FALSE
            /\ UNCHANGED data
       ELSE /\ data' = GroupRelatedTweets(data)
            /\ pc' = "save"
            /\ UNCHANGED <<result, fatal, listening>>
    /\ UNCHANGED <<tweet_limit, seen_tweets, ignore_existing, current_instance,
                   should_stop, last_page_content, file, page_content, fresh_start,
                   existing_data, inst, consecutive_empty_pages, pageVars, runs, prior,
                   discarded, trail, exit_reason, save_outcome, merge,
                   progress, unitVars>>

\* save_results, lines 536-564, and the return of line 519.  open(.., "w")
\* either raises and leaves the file alone ("open") or truncates it; json.dump
\* then writes the list piece by piece and can stop partway ("dump"); the CSV
\* is written after the JSON is complete ("csv").  Every exception is caught at
\* line 562 and the caller ignores the value returned.
\* Mutant of FileAfterSave: a file that does not parse is left as it is.
FileAfterSaveKeepsCorrupt(f, final_data, outcome) ==
    CASE outcome = "open" \/ f.kind = "corrupt" -> f
      [] outcome = "dump" -> Partial
      [] OTHER -> Stored(final_data)

FileAfterSave(f, final_data, outcome) ==
    CASE outcome = "open" -> f
      [] outcome = "dump" -> Partial
      [] OTHER -> Stored(final_data)

SaveResults(outcome) ==
    /\ pc = "save"
    /\ file' = FileAfterSave(file, FinalData(existing_data, data), outcome)
    /\ save_outcome' = outcome
    /\ result' = "True"
    /\ pc' = "done"
    /\ listening' = FALSE
    /\ UNCHANGED <<objVars, page_content, fresh_start, existing_data, inst,
                   consecutive_empty_pages, pageVars, runs, prior, discarded, trail,
                   exit_reason, fatal, merge,
                   progress, unitVars>>

\* The instances that can answer in Spec; the others are down.  FailoverSpec
\* lets every instance answer or fail.
Responsive == {1, NumInstances}

TryResponsive(ok, content) ==
    /\ ok => inst \in Responsive
    /\ TryInstance(ok, content)

SaveOutcomes == {"open", "dump", "csv", "ok"}
NavigateFailures == {"content", "action", "wait", "reread", "none"}

Next ==
    \/ \E fs \in BOOLEAN, ie \in BOOLEAN, unlink_ok \in BOOLEAN :
           ScrapeTwitterEntry(fs, ie, unlink_ok)
    \/ \E outcome \in {"ok", "no_page", "no_hook"} : LaunchBrowser(outcome)
    \/ StopScraping
    \/ \E ok \in BOOLEAN, content \in Contents : TryResponsive(ok, content)
    \/ WhileTest
    \/ \E loaded \in BOOLEAN, n \in 0..MaxFrags : PageWait(loaded, n)
    \/ \E tweet_id \in {NoId} \cup Ids, tweet_data \in BOOLEAN, fields \in CrawlFields :
           FragStep(tweet_id, tweet_data, fields)
    \/ AfterPage
    \/ \E failure \in NavigateFailures, button \in BOOLEAN, new_content \in Contents :
           Paginate(failure, button, new_content)
    \/ Finalize
    \/ \E outcome \in SaveOutcomes : SaveResults(outcome)

Spec == Init /\ [][Next]_vars

\* The run up to the first test of the while loop, every instance free to
\* answer or to fail.
FailoverNext ==
    \/ \E fs \in BOOLEAN, ie \in BOOLEAN, unlink_ok \in BOOLEAN :
           ScrapeTwitterEntry(fs, ie, unlink_ok)
    \/ \E outcome \in {"ok", "no_page", "no_hook"} : LaunchBrowser(outcome)
    \/ StopScraping
    \/ \E ok \in BOOLEAN, content \in Contents : TryInstance(ok, content)
    \/ WhileTest

FailoverSpec == Init /\ [][FailoverNext]_vars

\* ------------------------------------------- the merge as a pure function
\* Records a store or a crawl can hold: with or without the key "tweet_id",
\* from an earlier session (0) or this one (1).
MergeRecords == {Record(id, 1, <<>>, run) : id \in {NoId, 1, 2}, run \in {0, 1}}

\* The lists the merge is given, for either argument.
MergeInputs == SeqsUpTo(MergeRecords, MaxMergeLen)

crawlVars == <<objVars, worldVars, runVars, pageVars, histVars>>

\* A fresh scraper, and the two arguments of the merge.
MergeInit ==
    /\ data = <<>>
    /\ tweet_limit = 0
    /\ seen_tweets = {}
    /\ ignore_existing = FALSE
    /\ current_instance = 0
    /\ should_stop = FALSE
    /\ last_page_content = NoContent
    /\ file = Absent
    /\ page_content = NoContent
    /\ listening = FALSE
    /\ pc = "idle"
    /\ fresh_start = FALSE
    /\ existing_data = <<>>
    /\ inst = 1
    /\ consecutive_empty_pages = 0
    /\ result = "none"
    /\ new_tweets = <<>>
    /\ duplicates = 0
    /\ errors = 0
    /\ idx = 0
    /\ nfrag = 0
    /\ runs = 0
    /\ prior = Absent
    /\ discarded = FALSE
    /\ trail = <<>>
    /\ exit_reason = "none"
    /\ fatal = FALSE
    /\ save_outcome = "none"
    /\ merge \in {[MergeIdle EXCEPT !.step = 1, !.prior = p, !.new = n] :
                      p \in MergeInputs, n \in MergeInputs}
    /\ progress = <<>>
    /\ nav = NavIdle
    /\ grouping = GroupIdle
    /\ ident = IdentIdle
    /\ processor = ProcessorIdle

\* save_results(existing_data) with self.data = new: final_data of line 548.
MergeOnce ==
    /\ merge.step = 1
    /\ merge' = [merge EXCEPT !.step = 2, !.once = FinalData(merge.prior, merge.new)]
    /\ UNCHANGED <<crawlVars, progress, unitVars>>

\* The same call again, on what the first one produced.
MergeAgain ==
    /\ merge.step = 2
    /\ merge' = [merge EXCEPT !.step = 3, !.twice = FinalData(merge.once, merge.new)]
    /\ UNCHANGED <<crawlVars, progress, unitVars>>

MergeNext ==
    \/ MergeOnce
    \/ MergeAgain

MergeSpec == MergeInit /\ [][MergeNext]_vars

\* ------------------------------------------- several runs of one scraper
\* What extract_tweet_data reads in SessionSpec: no reply, or a reply to two
\* handles.
SessionFields == {[ts |-> 1, reply |-> <<>>], [ts |-> 1, reply |-> <<1, 2>>]}

\* A scraper with tweet_limit = 1 and a store that is absent or holds id 1.
SessionInit ==
    /\ Init
    /\ tweet_limit = 1
    /\ file \in {Absent, Stored(Ascending({1}, 1))}

\* Runs in which the browser starts, the first instance answers, no wait times
\* out and the files are written; the pages and their elements are free.
SessionNext ==
    \/ \E fs \in BOOLEAN, ie \in BOOLEAN, unlink_ok \in BOOLEAN :
           ScrapeTwitterAgain(fs, ie, unlink_ok)
    \/ LaunchBrowser("ok")
    \/ StopScraping
    \/ \E content \in Contents : TryInstance(TRUE, content)
    \/ WhileTest
    \/ \E n \in 0..MaxFrags : PageWait(TRUE, n)
    \/ \E tweet_id \in Ids, fields \in SessionFields : FragStep(tweet_id, TRUE, fields)
    \/ AfterPage
    \/ \E button \in BOOLEAN, new_content \in Contents : Paginate("none", button, new_content)
    \/ Finalize
    \/ SaveResults("ok")

SessionSpec == SessionInit /\ [][SessionNext]_vars

\* ------------------------------------------------- a run that keeps going
\* What extract_tweet_data reads in LiveSpec: every element is a dated tweet
\* that replies to nobody (the loop never looks inside a record).
LiveFields == [ts |-> 1, reply |-> <<>>]

\* The steps of scrape_twitter itself: everything but the caller's call and
\* the key press.
RunStep ==
    \/ \E outcome \in {"ok", "no_page", "no_hook"} : LaunchBrowser(outcome)
    \/ \E ok \in BOOLEAN, content \in Contents : TryResponsive(ok, content)
    \/ WhileTest
    \/ \E loaded \in BOOLEAN, n \in 0..MaxFrags : PageWait(loaded, n)
    \/ \E tweet_id \in {NoId} \cup Ids, tweet_data \in BOOLEAN :
           FragStep(tweet_id, tweet_data, LiveFields)
    \/ AfterPage
    \/ \E failure \in NavigateFailures, button \in BOOLEAN, new_content \in Contents :
           Paginate(failure, button, new_content)
    \/ Finalize
    \/ \E outcome \in SaveOutcomes : SaveResults(outcome)

\* A scraper whose data file does not exist yet.
LiveInit ==
    /\ Init
    /\ file = Absent

\* The caller's call, the key press and the steps of the run.
LiveNext ==
    \/ \E fs \in BOOLEAN, ie \in BOOLEAN, unlink_ok \in BOOLEAN :
           ScrapeTwitterEntry(fs, ie, unlink_ok)
    \/ StopScraping
    \/ RunStep

\* scrape_twitter runs in one thread and every wait in it has a timeout
\* (lines 139, 288-296, 320-327, 412-426), so a started run always takes its
\* next step; the caller and the keyboard are under no such obligation.
LiveSpec == LiveInit /\ [][LiveNext]_vars /\ WF_vars(RunStep)

\* ---------------------------------------------- functions on their own
\* A constructed scraper that is not crawling: everything but the page, the
\* fingerprint and the function under study.
AtRest ==
    /\ data = <<>>
    /\ tweet_limit = 0
    /\ seen_tweets = {}
    /\ ignore_existing = FALSE
    /\ current_instance = 0
    /\ should_stop = FALSE
    /\ file = Absent
    /\ listening = FALSE
    /\ pc = "idle"
    /\ fresh_start = FALSE
    /\ existing_data = <<>>
    /\ inst = 1
    /\ consecutive_empty_pages = 0
    /\ result = "none"
    /\ new_tweets = <<>>
    /\ duplicates = 0
    /\ errors = 0
    /\ idx = 0
    /\ nfrag = 0
    /\ runs = 0
    /\ prior = Absent
    /\ discarded = FALSE
    /\ trail = <<>>
    /\ exit_reason = "none"
    /\ fatal = FALSE
    /\ save_outcome = "none"
    /\ merge = MergeIdle
    /\ progress = <<>>

NavContents == 1..MaxNavContent

\* A page is open and no transition has been recorded (line 32).
NavInit ==
    /\ AtRest
    /\ page_content \in NavContents
    /\ last_page_content = NoContent
    /\ nav = NavIdle
    /\ grouping = GroupIdle
    /\ ident = IdentIdle
    /\ processor = ProcessorIdle

NavNext ==
    \E failure \in NavigateFailures, button \in BOOLEAN, new_content \in NavContents :
        NavigateToNextPage(failure, button, new_content)

NavSpec == NavInit /\ [][NavNext]_vars

\* An element is given to extract_tweet_id.
IdentInit ==
    /\ AtRest
    /\ page_content = NoContent
    /\ last_page_content = NoContent
    /\ nav = NavIdle
    /\ grouping = GroupIdle
    /\ ident \in {[step |-> 1, element |-> el, tweet_id |-> <<>>] : el \in Elements}
    /\ processor = ProcessorIdle

ExtractTweetIdCall ==
    /\ ident.step = 1
    /\ ident' = [ident EXCEPT !.step = 2, !.tweet_id = ExtractTweetId(ident.element)]
    /\ UNCHANGED <<crawlVars, merge, progress, nav, grouping, processor>>

IdentNext == ExtractTweetIdCall

IdentSpec == IdentInit /\ [][IdentNext]_vars

\* What a record given to group_related_tweets holds: its timestamp, whether
\* it has the key "reply_to_usernames", and the handles under that key (none,
\* one, two distinct ones, one twice).
GroupShapes == {[ts |-> t, keyed |-> FALSE, reply |-> <<>>] : t \in {TsNone, 1, 2}} \cup
               {[ts |-> t, keyed |-> TRUE, reply |-> r] :
                   t \in {TsNone, 1, 2},
                   r \in {<<>>, <<1>>, <<2>>, <<1, 2>>, <<1, 1>>}}

\* The lists of records: the record at position i has id i.
GroupInputs ==
    {[i \in 1..Len(shapes) |->
         [Record(i, shapes[i].ts, shapes[i].reply, 1) EXCEPT !.has_reply = shapes[i].keyed]] :
        shapes \in SeqsUpTo(GroupShapes, MaxGroupLen)}

\* A list of records is given to group_related_tweets.
GroupInit ==
    /\ AtRest
    /\ page_content = NoContent
    /\ last_page_content = NoContent
    /\ nav = NavIdle
    /\ grouping \in {[GroupIdle EXCEPT !.step = 1, !.tweets = tweets] :
                         tweets \in GroupInputs}
    /\ ident = IdentIdle
    /\ processor = ProcessorIdle

\* group_related_tweets(tweets), lines 341-377: it raises or returns a list.
GroupCall ==
    /\ grouping.step = 1
    /\ grouping' = [grouping EXCEPT
                       !.step = 2,
                       !.raised = GroupRaises(grouping.tweets),
                       !.result = IF GroupRaises(grouping.tweets) THEN <<>>
                                  ELSE GroupRelatedTweets(grouping.tweets)]
    /\ UNCHANGED <<crawlVars, merge, progress, nav, ident, processor>>

GroupNext == GroupCall

GroupSpec == GroupInit /\ [][GroupNext]_vars

\* ------------------------------------------ src/reply_processor.py on its own
\* _load_processed_ids, lines 45-52: the ids of a file that exists and parses;
\* otherwise processed_ids stays the empty set of line 14.
LoadProcessedIds(f) == IF f.kind = "ok" THEN f.ids ELSE {}

\* __init__, lines 12-17: in test mode no client is built; otherwise each
\* initializer returns a client or, when it raised, None (lines 30-32, 41-43).
Clients(test_mode) == IF test_mode THEN {FALSE} ELSE BOOLEAN

Processors ==
    {[ProcessorIdle EXCEPT !.test_mode = c[1], !.twitter_client = c[2],
                           !.openai_client = c[3], !.ids_file = f,
                           !.processed_ids = LoadProcessedIds(f),
                           !.loaded = LoadProcessedIds(f)] :
        c \in {x \in BOOLEAN \X BOOLEAN \X BOOLEAN :
                  x[2] \in Clients(x[1]) /\ x[3] \in Clients(x[1])},
        f \in {NoIdsFile, CorruptIdsFile} \cup {IdsFile(ids) : ids \in SUBSET ReplyIds}}

\* How the OpenAI call can end, how create_tweet can end, how the write of
\* processed_tweets.json can end, and the delays a caller can pass (time.sleep
\* raises ValueError for a negative one).
GenerateOutcomes == {"text", "empty", "raise"}
PostOutcomes == {"id", "tweepy", "other"}
SaveIdsOutcomes == {"ok", "open", "dump"}
Delays == {-1, 0, 1}

\* generate_response, lines 71-99: a text in test mode; otherwise what the
\* API call gives, stripped, or the exception that is left after the retries
\* (with no client the attribute access raises each time).
GenerateResponse(p, gen) ==
    IF p.test_mode THEN "text"
    ELSE IF ~p.openai_client THEN "raise"
    ELSE gen

\* post_reply, lines 101-116: "id" is a posted id returned, "tweepy" the None
\* of line 116, "other" an exception that is no TweepyException and leaves
\* the function (with no client, the AttributeError of line 109).
PostReply(p, post) ==
    IF p.test_mode THEN "id"
    ELSE IF ~p.twitter_client THEN "other"
    ELSE post

\* process_tweet without the test of line 129.
ProcessStatusNoSkip(p, tweet_id, has_text, gen, post, delay) ==
    IF tweet_id = NoId \/ ~has_text THEN "missing"
    ELSE IF GenerateResponse(p, gen) = "raise" THEN "error_generate"
    ELSE IF GenerateResponse(p, gen) = "empty" THEN "empty"
    ELSE IF PostReply(p, post) = "other" THEN "error_post"
    ELSE IF PostReply(p, post) = "tweepy" THEN "post_failed"
    ELSE IF delay < 0 THEN "error_sleep"
    ELSE "success"

\* process_tweet, lines 118-169: the return the call ends at. "missing" is
\* line 124, "skipped" line 130, "empty" line 139, "post_failed" line 147,
\* "success" line 159; the three "error_" values are the return of line 166,
\* told apart by the call that raised.
ProcessStatus(p, tweet_id, has_text, gen, post, delay) ==
    IF tweet_id = NoId \/ ~has_text THEN "missing"
    ELSE IF tweet_id \in p.processed_ids THEN "skipped"
    ELSE IF GenerateResponse(p, gen) = "raise" THEN "error_generate"
    ELSE IF GenerateResponse(p, gen) = "empty" THEN "empty"
    ELSE IF PostReply(p, post) = "other" THEN "error_post"
    ELSE IF PostReply(p, post) = "tweepy" THEN "post_failed"
    ELSE IF delay < 0 THEN "error_sleep"
    ELSE "success"

\* The returns that lie behind the call of generate_response (line 137), and
\* behind line 146, where post_reply has returned a posted id.
Generated(status) == status \notin {"missing", "skipped"}
Posted(status) == status \in {"success", "error_sleep"}

\* _save_processed_ids, lines 54-60: the file holds the set, or is left as it
\* was when open raised, or is partial when json.dump raised; the exception is
\* logged and not passed on.
SaveProcessedIds(f, ids, save) ==
    CASE save = "ok" -> IdsFile(ids)
      [] save = "open" -> f
      [] OTHER -> CorruptIdsFile

\* One call process_tweet(tweet, delay) on the processor.
ProcessTweet(tweet_id, has_text, gen, post, save, delay) ==
    /\ processor.calls < MaxReplyCalls
    /\ LET status == ProcessStatus(processor, tweet_id, has_text, gen, post, delay)
           marked == IF Posted(status) THEN processor.processed_ids \cup {tweet_id}
                     ELSE processor.processed_ids
       IN processor' = [processor EXCEPT
              !.processed_ids = marked,
              !.ids_file = IF Posted(status)
                           THEN SaveProcessedIds(processor.ids_file, marked, save)
                           ELSE processor.ids_file,
              !.replies = IF Posted(status)
                          THEN [processor.replies EXCEPT ![tweet_id] = @ + 1]
                          ELSE processor.replies,
              !.calls = @ + 1,
              !.last = [tweet_id |-> tweet_id, status |-> status,
                        before |-> processor.processed_ids,
                        generated |-> Generated(status), posted |-> Posted(status)]]
    /\ UNCHANGED <<crawlVars, merge, progress, nav, grouping, ident>>

ReplyInit ==
    /\ AtRest
    /\ page_content = NoContent
    /\ last_page_content = NoContent
    /\ nav = NavIdle
    /\ grouping = GroupIdle
    /\ ident = IdentIdle
    /\ processor \in Processors

ReplyNext ==
    \E tweet_id \in {NoId} \cup ReplyIds, has_text \in BOOLEAN, gen \in GenerateOutcomes,
       post \in PostOutcomes, save \in SaveIdsOutcomes, delay \in Delays :
        ProcessTweet(tweet_id, has_text, gen, post, save, delay)

ReplySpec == ReplyInit /\ [][ReplyNext]_vars

\* ================================================================= claims

PositionsOf(recs, id) == {i \in 1..Len(recs) : recs[i].tweet_id = id}
Last(S) == CHOOSE i \in S : \A j \in S : j <= i

\* The record the claim names for an id: the last new one, else the last
\* persisted one.
LaterApplied(p, n, id) ==
    IF PositionsOf(n, id) # {} THEN n[Last(PositionsOf(n, id))]
    ELSE p[Last(PositionsOf(p, id))]

\* C1: the set save_results writes holds exactly one record for each id that
\* occurs in the persisted records or the new ones, and it is the one applied
\* last: the last new record with that id, else the last persisted one.
C1_MergeRightBiased ==
    merge.step >= 2 =>
        /\ IdsOf(merge.once) = IdsOf(merge.prior) \cup IdsOf(merge.new)
        /\ \A i \in 1..Len(merge.once) : merge.once[i].tweet_id # NoId
        /\ \A id \in IdsOf(merge.once) :
              /\ Cardinality(PositionsOf(merge.once, id)) = 1
              /\ \A i \in PositionsOf(merge.once, id) :
                    merge.once[i] = LaterApplied(merge.prior, merge.new, id)

\* An id that is persisted and collected twice, with three different records.
C1_Witness ==
    /\ merge.step = 2
    /\ \E id \in {1, 2} :
          /\ PositionsOf(merge.prior, id) # {}
          /\ Cardinality(PositionsOf(merge.new, id)) = 2
          /\ merge.new[1] # merge.new[2]
          /\ merge.once = <<merge.new[2]>>
          /\ merge.prior[Last(PositionsOf(merge.prior, id))] # merge.new[2]

\* C9: merging the same new records a second time, into the result of the
\* first merge, gives the same ids and the same record for each id.
C9_MergeIdempotent ==
    merge.step = 3 =>
        /\ Len(merge.twice) = Len(merge.once)
        /\ IdsOf(merge.twice) = IdsOf(merge.once)
        /\ \A id \in IdsOf(merge.once) :
              \A i \in PositionsOf(merge.once, id), j \in PositionsOf(merge.twice, id) :
                  merge.once[i] = merge.twice[j]

\* Merged twice, with an id on both sides and a new id.
C9_Witness ==
    /\ merge.step = 3
    /\ IdsOf(merge.prior) \cap IdsOf(merge.new) # {}
    /\ IdsOf(merge.new) \ IdsOf(merge.prior) # {}
    /\ merge.twice # <<>>

\* What the run found in the store when it began, and what is in it now.
PriorIds == IdsOf(StoreOf(prior))
StoredIds == IdsOf(StoreOf(file))
Returned == pc = "done" /\ runs > 0
Written == save_outcome \in {"csv", "ok"}
InPageLoop == pc \in {"while", "wait", "frag", "after_page", "paginate"}

\* C2: a run without fresh_start that writes the store keeps every id the
\* store held before the run, whatever ignore_existing is.
C2_PriorIdsKept ==
    (Returned /\ ~fresh_start /\ Written) => PriorIds \subseteq StoredIds

\* C3: in the page loop, up to the state in which it is left, self.data never
\* holds two records with the same id, whatever the flags of the run.
C3_NoTwoWithSameId ==
    (InPageLoop \/ pc = "after_loop") =>
        \A i \in 1..Len(data), j \in 1..Len(data) :
            i # j => data[i].tweet_id # data[j].tweet_id

\* C4: with ignore_existing false and the store not discarded, no record whose
\* id the store held when the run began is collected during the run.
C4_PersistedNeverCollected ==
    (runs > 0 /\ ~ignore_existing /\ ~discarded) =>
        \A r \in Range(data) \cup Range(new_tweets) : r.tweet_id \notin PriorIds

\* A page on which a persisted id was skipped and another id collected.
C4_Witness ==
    /\ pc = "after_page"
    /\ ~ignore_existing
    /\ ~discarded
    /\ PriorIds # {}
    /\ duplicates > 0
    /\ new_tweets # <<>>

\* C5: when the page loop ends by a stop (cancellation, empty pages or failed
\* pagination at the threshold, target reached) with a record collected, the
\* run groups and saves, and (when the write itself succeeds) every collected
\* id is in the store when the run returns.
C5_StoppedRunPersists ==
    (Returned /\ exit_reason \in {"cancel", "empty", "pagination", "target"}
              /\ data # <<>>) =>
        /\ save_outcome # "none"
        /\ Written => IdsOf(data) \subseteq StoredIds

\* C6: a run that fails with a fatal error after collecting a record still
\* merges the collected records into the store before it returns.
C6_FatalRunPersists ==
    (Returned /\ fatal /\ data # <<>>) => IdsOf(data) \subseteq StoredIds

\* C7: once save_results has run, the file holds either all it held before the
\* call or the complete merged list, also when the write failed.
C7_PersistAtomic ==
    save_outcome # "none" =>
        \/ file = (IF discarded THEN Absent ELSE prior)
        \/ file = Stored(FinalData(existing_data, data))

\* C8: a run with fresh_start on a non-empty store that got as far as looking
\* for a source leaves no id in the store that only the old store held.
C8_FreshStartDropsOld ==
    (Returned /\ fresh_start /\ PriorIds # {} /\ exit_reason # "none") =>
        StoredIds \cap (PriorIds \ IdsOf(data)) = {}

Gotos == SelectSeq(trail, LAMBDA e : e.call = "goto")

\* C10: the instances are tried in list order, one after the other; each
\* failed attempt is followed by its screenshot and its delay before the next
\* attempt; the page loop is entered on the first instance that answered, which
\* is the last one tried.
C10_FailoverInOrder ==
    /\ \A k \in 1..Len(Gotos) : Gotos[k].instance = k
    /\ \A i \in 1..Len(trail) :
          trail[i].call = "goto" =>
              \/ /\ Len(trail) = i + 1
                 /\ trail[i + 1] = Event("found", trail[i].instance)
              \/ /\ Len(trail) >= i + 2
                 /\ trail[i + 1] = Event("take_screenshot", trail[i].instance)
                 /\ trail[i + 2] = Event("random_delay", trail[i].instance)
    /\ \A i \in 1..Len(trail) : trail[i].call = "found" => i = Len(trail)
    /\ (pc \in {"while", "wait", "after_loop"}) =>
          /\ trail # <<>>
          /\ trail[Len(trail)] = Event("found", current_instance)
          /\ Len(Gotos) = current_instance

\* The loop entered on the third instance after two failures.
C10_Witness ==
    /\ pc = "wait"
    /\ current_instance = 3
    /\ Len(trail) = 8

\* The store as the entry guard of lines 390-395 left it.
AfterEntryGuard == IF discarded THEN Absent ELSE prior
Founds == SelectSeq(trail, LAMBDA e : e.call = "found")

\* C11: when every instance has failed, scrape_twitter has returned False (no
\* exception left it), no instance was found and nothing was collected, so the
\* page loop and navigate_to_next_page were never entered, save_results was
\* not called and the file is what the entry guard left.
C11_ExhaustionReturnsFalse ==
    (Len(Gotos) = NumInstances /\ Founds = <<>> /\ pc # "acquire") =>
        /\ pc = "done"
        /\ result = "False"
        /\ ~fatal
        /\ exit_reason = "exhausted"
        /\ data = <<>>
        /\ page_content = NoContent
        /\ last_page_content = NoContent
        /\ save_outcome = "none"
        /\ file = AfterEntryGuard

\* All five instances failed in a run that began by deleting a store.
C11_Witness ==
    /\ pc = "done"
    /\ exit_reason = "exhausted"
    /\ Len(trail) = 3 * NumInstances
    /\ discarded
    /\ PriorIds # {}
    /\ ~listening

\* C12: for either strategy, when the wait succeeded and the page was read
\* again, a content equal to the one read before the attempt or to
\* last_page_content makes navigate_to_next_page return False, and
\* last_page_content stays as it was.
C12_StallReturnsFalse ==
    (nav.calls > 0 /\ nav.failure = "none"
                   /\ (nav.after = nav.before \/ nav.after = nav.last)) =>
        /\ nav.returned = "False"
        /\ last_page_content = nav.last

\* After a scroll the page shows again the content recorded two pages ago,
\* which differs from the content before the scroll.
C12_Witness ==
    /\ nav.calls > 1
    /\ ~nav.button
    /\ nav.failure = "none"
    /\ nav.after = nav.last
    /\ nav.after # nav.before
    /\ nav.returned = "False"

\* C20: navigate_to_next_page returns a boolean in every case; False whenever
\* a query, the scroll, the click, the wait or a read of the content raised;
\* True only when nothing raised (so the wait of the strategy taken succeeded)
\* and the new content differs from the content before and from the recorded
\* fingerprint.
C20_NavigateNeverRaises ==
    nav.calls > 0 =>
        /\ nav.returned \in {"True", "False"}
        /\ nav.failure # "none" => nav.returned = "False"
        /\ nav.returned = "True" =>
              /\ nav.failure = "none"
              /\ nav.after # nav.before
              /\ nav.after # nav.last
              /\ last_page_content = nav.before

\* The wait after the scroll times out on a page reached by a transition
\* that had succeeded.
C20_Witness ==
    /\ nav.calls > 1
    /\ ~nav.button
    /\ nav.failure = "wait"
    /\ nav.returned = "False"
    /\ nav.last # NoContent

InLoopBody == pc \in {"wait", "frag", "after_page", "paginate"}

\* C13 as stated: a run with tweet_limit = 0 never enters the body of the page
\* loop, collects nothing, and when it has left the loop at its first test
\* and returned, the store is what it was when the run began.
C13_ZeroTargetStoreUntouched ==
    (runs > 0 /\ tweet_limit = 0) =>
        /\ ~InLoopBody
        /\ data = <<>>
        /\ (Returned /\ exit_reason = "target") => file = prior

\* C13 amended: a run with tweet_limit = 0 never enters the body of the page
\* loop (no page is scanned, no transition attempted or recorded), collects
\* nothing, never calls save_results, and leaves the store as the entry guard
\* left it: deleted when fresh_start deleted it, unchanged otherwise.
C13_ZeroTargetSkipsLoop ==
    (runs > 0 /\ tweet_limit = 0) =>
        /\ ~InLoopBody
        /\ pc # "save"
        /\ data = <<>>
        /\ new_tweets = <<>>
        /\ last_page_content = NoContent
        /\ consecutive_empty_pages = 0
        /\ save_outcome = "none"
        /\ file = AfterEntryGuard

\* A run with tweet_limit = 0 that found a source, left the loop at its first
\* test and returned, after the entry guard had deleted a store.
C13_Witness ==
    /\ tweet_limit = 0
    /\ Returned
    /\ exit_reason = "target"
    /\ discarded
    /\ PriorIds # {}
    /\ file = Absent

\* C14: the page loop is left for lack of progress only when a count of
\* consecutive failures exceeds max_consecutive_empty.  The one counter of the
\* code is incremented for every page without new records and for every
\* failed transition since the last page with new records, so it is at least
\* the number of consecutive empty pages and at least the number of
\* consecutive failed transitions: when the loop is left for lack of progress,
\* the counter, hence possibly neither count, exceeds the threshold.
C14_StopsOnlyBeyondThreshold ==
    exit_reason \in {"empty", "pagination"} =>
        consecutive_empty_pages > max_consecutive_empty

\* The records of a page that still fit under tweet_limit.
Fitting == IF Len(new_tweets) <= tweet_limit - Len(data)
           THEN new_tweets
           ELSE [i \in 1..(tweet_limit - Len(data)) |-> new_tweets[i]]

\* C15: once should_stop is set while a page is scanned, the next step of the
\* scan is its return: no further element is processed and the records found
\* so far on the page are returned as they are; the step of the orchestrator
\* that follows adds them to self.data (up to tweet_limit) and leaves the
\* loop for the finalizing code, without any page transition.
C15_StopAtFragmentBoundary ==
    [][/\ (pc = "frag" /\ should_stop) =>
             /\ pc' = "after_page"
             /\ new_tweets' = new_tweets
             /\ idx' = idx
             /\ seen_tweets' = seen_tweets
             /\ data' = data
       /\ (pc = "after_page" /\ should_stop) =>
             /\ pc' = "after_loop"
             /\ data' = data \o Fitting
             /\ page_content' = page_content
             /\ last_page_content' = last_page_content]_vars

\* The scan of a page has returned on a stop request with one record found
\* and an element left unprocessed.
C15_Witness ==
    /\ pc = "after_page"
    /\ should_stop
    /\ idx < nfrag
    /\ new_tweets # <<>>

\* C16: a run with a positive tweet_limit that found a source, left its page
\* loop (target reached, stop requested, empty pages or failed transitions at
\* the threshold) and met no fatal error returns True, whatever it collected.
C16_LoopLeftMeansSuccess ==
    (Returned /\ tweet_limit > 0 /\ ~fatal
              /\ exit_reason \in {"target", "cancel", "empty", "pagination"}) =>
        result = "True"

\* C17: when a page iteration is over and the loop comes back to its test,
\* self._update_progress has been called, and its last call gave
\* (len(self.data), self.tweet_limit).
C17_ProgressAfterEachPage ==
    (pc = "while" /\ (data # <<>> \/ consecutive_empty_pages > 0)) =>
        /\ progress # <<>>
        /\ progress[Len(progress)] = <<Len(data), tweet_limit>>

StatusAt(href, i) ==
    /\ i < Len(href)
    /\ href[i] = "/status/"
    /\ href[i + 1] \in Digits

HasStatus(href) == \E i \in 1..Len(href) : StatusAt(href, i)

\* id is the number that follows the first "/status/<digit>" of href.
IsStatusNumber(href, id) ==
    \E i \in 1..Len(href) :
        /\ StatusAt(href, i)
        /\ \A j \in 1..(i - 1) : ~StatusAt(href, j)
        /\ Len(id) >= 1
        /\ i + Len(id) <= Len(href)
        /\ \A k \in 1..Len(id) : id[k] = href[i + k] /\ id[k] \in Digits
        /\ (i + Len(id) < Len(href)) => href[i + Len(id) + 1] \notin Digits

\* id is the fingerprint of the first 20 characters of the username ("unknown"
\* without one) followed by the first 100 of the text ("" without one).
IsFingerprint(el, id) ==
    LET username == IF el.user THEN el.username ELSE Unknown
        text == IF el.content THEN el.text ELSE <<>>
        u == IF Len(username) > 20 THEN 20 ELSE Len(username)
        t == IF Len(text) > 100 THEN 100 ELSE Len(text)
    IN /\ Len(id) = 1 + u + t
       /\ id[1] = "hash"
       /\ \A k \in 1..u : id[1 + k] = username[k]
       /\ \A k \in 1..t : id[1 + u + k] = text[k]

\* C18: extract_tweet_id returns the status number of the permalink when the
\* href has one; else the data-tweet-id attribute when it is not empty; else
\* the fingerprint of the truncated username and text.  It returns None only
\* when a call on the element raised.
C18_OrderedFallback ==
    ident.step = 2 =>
        LET el == ident.element
            id == ident.tweet_id
        IN \/ el.detached # 0 /\ id = <<>>
           \/ IF el.link /\ HasStatus(el.href) THEN IsStatusNumber(el.href, id)
              ELSE IF el.body /\ el.attr # <<>> THEN id = el.attr
              ELSE IsFingerprint(el, id)

\* An element whose permalink gives 21 and whose attribute gives 1.
C18_Witness ==
    /\ ident.step = 2
    /\ ident.element.href = <<"/status/", "2", "1">>
    /\ ident.element.attr = <<"1">>
    /\ ident.tweet_id = <<"2", "1">>

\* Where the group of the h-th handle begins in the output: after the groups
\* of the handles met before it.
RECURSIVE GroupOffset(_, _, _)
GroupOffset(pairs, keys, h) ==
    IF h = 1 THEN 0
    ELSE GroupOffset(pairs, keys, h - 1) + Len(ThreadOf(pairs, keys[h - 1], 1))

NamesHandleOnce(tweets) ==
    \A i \in 1..Len(tweets) :
        \A a \in 1..Len(tweets[i].reply_to_usernames),
           b \in 1..Len(tweets[i].reply_to_usernames) :
            a # b => tweets[i].reply_to_usernames[a] # tweets[i].reply_to_usernames[b]

\* C19: when group_related_tweets returns, for a list in which no record names
\* the same handle twice, the group of every handle is sorted by timestamp and
\* its k-th record carries thread_position k, thread_size the size of the
\* group and the thread_key of that handle and size, also when a record names
\* two handles.
C19_GroupAnnotations ==
    (grouping.step = 2 /\ ~grouping.raised /\ NamesHandleOnce(grouping.tweets)) =>
        LET pairs == ReplyPairs(grouping.tweets, 1)
            keys == ThreadKeys(pairs, 1)
            out == grouping.result
        IN \A h \in 1..Len(keys) :
              LET n == Len(ThreadOf(pairs, keys[h], 1))
                  off == GroupOffset(pairs, keys, h)
              IN /\ off + n <= Len(out)
                 /\ \A k \in 1..n :
                       /\ out[off + k].thread_position = k
                       /\ out[off + k].thread_size = n
                       /\ out[off + k].thread_key = <<keys[h], n>>
                       /\ k < n => out[off + k].timestamp <= out[off + k + 1].timestamp

\* C21: when the scan of a page has gone through all its elements, the three
\* values it returns add up to the number of elements: each element was
\* counted as new, as a duplicate or as an error.
C21_EveryFragmentClassified ==
    (pc = "after_page" /\ idx = nfrag) =>
        Len(new_tweets) + duplicates + errors = nfrag

HandlesOf(t) == IF t.has_reply THEN Range(t.reply_to_usernames) ELSE {}

\* C22: when group_related_tweets returns, every record that names a handle
\* occurs exactly once in the group of each handle it names, and every record
\* that names none (the key absent, or present with an empty list) occurs
\* exactly once among the standalone records that follow the groups.
C22_GroupingLosesNothing ==
    (grouping.step = 2 /\ ~grouping.raised) =>
        LET tweets == grouping.tweets
            pairs == ReplyPairs(tweets, 1)
            keys == ThreadKeys(pairs, 1)
            out == grouping.result
            grouped == GroupOffset(pairs, keys, Len(keys) + 1)
        IN \A i \in 1..Len(tweets) :
              IF HandlesOf(tweets[i]) # {}
              THEN \A h \in 1..Len(keys) :
                      keys[h] \in HandlesOf(tweets[i]) =>
                          Cardinality({k \in (GroupOffset(pairs, keys, h) + 1)
                                                ..GroupOffset(pairs, keys, h + 1) :
                                          k <= Len(out) /\ out[k].tweet_id = i}) = 1
              ELSE Cardinality({k \in (grouped + 1)..Len(out) : out[k].tweet_id = i}) = 1

\* The place in the input where a handle is first named: the index of its
\* first (record, handle) pair.
FirstNamed(pairs, handle) ==
    CHOOSE p \in 1..Len(pairs) :
        /\ pairs[p][2] = handle
        /\ \A q \in 1..(p - 1) : pairs[q][2] # handle

\* How many output entries precede the group of a handle, and the size of
\* that group.
GroupStart(pairs, handle) ==
    Cardinality({p \in 1..Len(pairs) :
                    FirstNamed(pairs, pairs[p][2]) < FirstNamed(pairs, handle)})
GroupSize(pairs, handle) == Cardinality({p \in 1..Len(pairs) : pairs[p][2] = handle})

\* The input positions of the records that name no handle, in input order.
Standalone(tweets) ==
    SelectSeq([i \in 1..Len(tweets) |-> i], LAMBDA i : HandlesOf(tweets[i]) = {})

C24_PageErrorIsEmptyPage ==
    [][/\ pc = "wait" => pc' \in {"wait", "frag", "after_page"}
       /\ (pc = "wait" /\ pc' = "after_page") =>
             /\ new_tweets' = <<>>
             /\ duplicates' = 0
             /\ errors' = 0
             /\ data' = data
             /\ result' = "none"
             /\ ~fatal'
       /\ (pc = "after_page" /\ pc' # "after_page" /\ new_tweets = <<>>) =>
             /\ data' = data
             /\ consecutive_empty_pages' = consecutive_empty_pages + 1
             /\ \/ pc' = "paginate"
                \/ /\ pc' = "after_loop"
                   /\ consecutive_empty_pages' >= max_consecutive_empty \/ should_stop
       /\ (pc = "frag" /\ errors' # errors) =>
             /\ errors' = errors + 1
             /\ new_tweets' = new_tweets
             /\ duplicates' = duplicates
             /\ idx' = idx + 1
             /\ pc' = IF idx + 1 < nfrag THEN "frag" ELSE "after_page"]_vars

\* A second page in a row gave no element, in a run that had collected a
\* record before and is still short of its target.
C24_Witness ==
    /\ pc = "after_page"
    /\ nfrag = 0
    /\ consecutive_empty_pages > 0
    /\ data # <<>>
    /\ Len(data) < tweet_limit

\* C25: in a run that finds a file that cannot be read or parsed, the load
\* gives no prior record (and, in the first run of a scraper, no seen id), the
\* run goes on to the browser and the sources as it does without a file, and
\* when save_results writes, the file becomes the list of the records
\* collected in the run, one per id.
C25_CorruptStoreIsEmpty ==
    (runs > 0 /\ prior = Corrupt) =>
        /\ existing_data = <<>>
        /\ pc = "launch" => (result = "none" /\ ~fatal)
        /\ (pc = "launch" /\ runs = 1) => seen_tweets = {}
        /\ Written =>
              /\ file = Stored(UniqueValues(data, 1))
              /\ StoredIds = IdsOf(data)

\* A run that found a corrupt file, did not delete it, and wrote its records.
C25_Witness ==
    /\ prior = Corrupt
    /\ ~discarded
    /\ Written
    /\ StoredIds # {}
    /\ result = "True"

\* C26: when a run has done its entry code (lines 389-400) and is about to
\* start the browser, seen_tweets is the set of ids of the store it loaded
\* (none when the store is absent, deleted or ignored), self.data is empty,
\* should_stop is false and last_page_content is None, also in a second run
\* of the same scraper.
C26_RunStartsClean ==
    (pc = "launch") =>
        /\ seen_tweets = (IF ignore_existing THEN {} ELSE StoredIds)
        /\ data = <<>>
        /\ ~should_stop
        /\ last_page_content = NoContent

\* C27: a run that was started returns: from every state in which
\* scrape_twitter is running, whatever the pages hold and however the waits
\* and the pagination end, the run reaches its return.
C27_EveryRunTerminates == (pc \notin {"idle", "done"}) ~> (pc = "done")

\* A run has returned after max_consecutive_empty pages in a row gave nothing,
\* with no record collected.
C27_Witness ==
    /\ Returned
    /\ exit_reason = "empty"
    /\ consecutive_empty_pages = max_consecutive_empty
    /\ data = <<>>
    /\ tweet_limit > 0

\* C28: in the page loop, after the loop, after the grouping and when the run
\* has returned, self.data holds at most tweet_limit records.
C28_NeverMoreThanTarget ==
    (InPageLoop \/ pc \in {"after_loop", "save", "done"}) => Len(data) <= tweet_limit

\* C29: when scrape_twitter has returned True, the id of every record in
\* self.data is the id of a record in the data file.
C29_SuccessMeansPersisted ==
    (Returned /\ result = "True") => IdsOf(data) \subseteq StoredIds

\* C30: the step of the page loop that calls navigate_to_next_page leaves
\* seen_tweets and self.data as they were; when the call returned False (the
\* loop counts it in consecutive_empty_pages) last_page_content is unchanged,
\* and when it returned True last_page_content is the content the page had
\* before the call.
C30_NavigateFrame ==
    [][(pc = "paginate" /\ pc' # "paginate") =>
          /\ seen_tweets' = seen_tweets
          /\ data' = data
          /\ IF consecutive_empty_pages' # consecutive_empty_pages
             THEN last_page_content' = last_page_content
             ELSE last_page_content' = page_content]_vars

\* The loop ended on a call that returned False, in a run that holds a record
\* and had recorded a fingerprint in an earlier call that returned True.
C30_Witness ==
    /\ pc = "after_loop"
    /\ exit_reason = "pagination"
    /\ data # <<>>
    /\ seen_tweets # {}
    /\ last_page_content # NoContent

====
